---- MODULE Spec2Model ----
(***************************************************************************)
(* Model of bc-gateway.py: the bridge between a line-oriented serial node  *)
(* and an MQTT broker.  Two gateway processes run the same program against *)
(* the same serial device and the same broker.  Each process executes      *)
(* main(): the loop that calls run(), logs the exception that ends it and  *)
(* either sleeps and calls run() again (-W) or leaves the loop.            *)
(*                                                                         *)
(* Text (str and bytes) is a sequence of one-character strings.            *)
(***************************************************************************)
EXTENDS Integers, Sequences, FiniteSets, TLC

\* ------------------------------------------------------------------ bounds

\* Calls of run() over all processes.  Everything else is finite as it
\* stands: the state keeps the last line, publish and write, not their history.
MaxSessions == 2

\* The gateway processes started against the same device.
Procs == {1, 2}

\* ------------------------------------------------------------------ text

Digits == <<"0", "1", "2", "3", "4", "5", "6", "7", "8", "9">>

DigitVal(c) == (CHOOSE i \in 1..10 : Digits[i] = c) - 1

\* seq[n:] of Python, n >= 0.
DropFirst(seq, n) == IF n >= Len(seq) THEN <<>> ELSE SubSeq(seq, n + 1, Len(seq))

\* seq[:n] of Python, n >= 0.
TakeFirst(seq, n) == IF n >= Len(seq) THEN seq ELSE SubSeq(seq, 1, n)

\* n copies of "0".
RECURSIVE Zeros(_)
Zeros(n) == IF n <= 0 THEN <<>> ELSE <<"0">> \o Zeros(n - 1)

\* str.rstrip('/').
RECURSIVE RStripSlash(_)
RStripSlash(s) ==
    IF s # <<>> /\ s[Len(s)] = "/" THEN RStripSlash(SubSeq(s, 1, Len(s) - 1)) ELSE s

\* Position of the first c in s, 0 when there is none.
IndexOf(s, c) ==
    IF \E i \in 1..Len(s) : s[i] = c
    THEN CHOOSE i \in 1..Len(s) : s[i] = c /\ \A j \in 1..(i - 1) : s[j] # c
    ELSE 0

\* int(text) for a text of digits.
RECURSIVE NatOfText(_)
NatOfText(s) ==
    IF s = <<>> THEN 0 ELSE 10 * NatOfText(SubSeq(s, 1, Len(s) - 1)) + DigitVal(s[Len(s)])

\* str(n) for n >= 0.
RECURSIVE TextOfNat(_)
TextOfNat(n) ==
    IF n < 10 THEN <<Digits[n + 1]>> ELSE TextOfNat(n \div 10) \o <<Digits[(n % 10) + 1]>>

\* str(int(digits)): the digits without leading zeros.
RECURSIVE StripZeros(_)
StripZeros(s) ==
    IF Len(s) > 1 /\ s[1] = "0" THEN StripZeros(SubSeq(s, 2, Len(s))) ELSE s

\* ------------------------------------------------------------------ FrameCodec

\* The parts of a JSON number literal  -?int(.frac)?([eE][-+]?exp)?  as
\* simplejson's NUMBER_RE splits it.
NumNeg(t) == t # <<>> /\ t[1] = "-"

NumBody(t) == IF NumNeg(t) THEN DropFirst(t, 1) ELSE t

NumExpAt(t) ==
    LET b == NumBody(t)
        e == IndexOf(b, "e")
    IN  IF e # 0 THEN e ELSE IndexOf(b, "E")

NumMantissa(t) ==
    LET b == NumBody(t) IN IF NumExpAt(t) = 0 THEN b ELSE TakeFirst(b, NumExpAt(t) - 1)

NumIntPart(t) ==
    LET m == NumMantissa(t)
        d == IndexOf(m, ".")
    IN  IF d = 0 THEN m ELSE TakeFirst(m, d - 1)

NumFracPart(t) ==
    LET m == NumMantissa(t)
        d == IndexOf(m, ".")
    IN  IF d = 0 THEN <<>> ELSE DropFirst(m, d)

NumExp(t) ==
    LET x == IF NumExpAt(t) = 0 THEN <<>> ELSE DropFirst(NumBody(t), NumExpAt(t))
    IN  IF x = <<>> THEN 0
        ELSE IF x[1] = "-" THEN 0 - NatOfText(DropFirst(x, 1))
        ELSE IF x[1] = "+" THEN NatOfText(DropFirst(x, 1))
        ELSE NatOfText(x)

IsFloatText(t) == IndexOf(t, ".") # 0 \/ NumExpAt(t) # 0

\* decimal.Decimal(text): sign, coefficient digits and exponent.
DecimalOf(t) ==
    [t |-> "dec",
     neg |-> NumNeg(t),
     d |-> StripZeros(NumIntPart(t) \o NumFracPart(t)),
     e |-> NumExp(t) - Len(NumFracPart(t))]

\* int(text): Python's int has no negative zero.
IntOf(t) ==
    LET d == StripZeros(NumIntPart(t))
    IN  [t |-> "int", neg |-> NumNeg(t) /\ d # <<"0">>, d |-> d, e |-> 0]

\* The value json.loads(..., parse_float=decimal.Decimal) builds for a number.
ParseNumber(t) == IF IsFloatText(t) THEN DecimalOf(t) ELSE IntOf(t)

\* "%+d" % n.
SignedText(n) == IF n < 0 THEN <<"-">> \o TextOfNat(0 - n) ELSE <<"+">> \o TextOfNat(n)

\* str(Decimal): Decimal.__str__, scientific notation when the exponent is
\* positive or the value has more than six leading fraction zeros.
DecimalStr(v) ==
    LET leftdigits == v.e + Len(v.d)
        dotplace == IF v.e <= 0 /\ leftdigits > -6 THEN leftdigits ELSE 1
        intpart == IF dotplace <= 0 THEN <<"0">>
                   ELSE IF dotplace >= Len(v.d) THEN v.d \o Zeros(dotplace - Len(v.d))
                   ELSE TakeFirst(v.d, dotplace)
        fracpart == IF dotplace <= 0 THEN <<".">> \o Zeros(0 - dotplace) \o v.d
                    ELSE IF dotplace >= Len(v.d) THEN <<>>
                    ELSE <<".">> \o DropFirst(v.d, dotplace)
        exp == IF leftdigits = dotplace THEN <<>>
               ELSE <<"E">> \o SignedText(leftdigits - dotplace)
    IN  (IF v.neg THEN <<"-">> ELSE <<>>) \o intpart \o fracpart \o exp

\* A parsed JSON string.
StrValue(s) == [t |-> "str", neg |-> FALSE, d |-> s, e |-> 0]

\* One element of a serial line's array, as the JSON scanner sees it:
\* a string token or a number token.
ParseElem(el) == IF el.tok = "str" THEN StrValue(el.text) ELSE ParseNumber(el.text)

\* json.dumps(value, use_decimal=True).
JsonDumps(v) ==
    IF v.t = "dec" THEN DecimalStr(v)
    ELSE IF v.t = "int" THEN (IF v.neg THEN <<"-">> ELSE <<>>) \o v.d
    ELSE <<"\"">> \o v.d \o <<"\"">>

\* json.loads(line.decode(), parse_float=decimal.Decimal): the parsed array,
\* or a failure for a line that is not JSON.
JsonLoads(line) ==
    IF line.json
    THEN [ok |-> TRUE, val |-> [i \in 1..Len(line.elems) |-> ParseElem(line.elems[i])]]
    ELSE [ok |-> FALSE, val |-> <<>>]

\* ------------------------------------------------------------------ configuration

\* config['mqtt']['topic'].
ConfigTopic == <<"n", "o", "d", "e">>

\* base_topic without the rstrip: a slash after the configured topic as it is.
BaseTopicRaw(config) == config \o <<"/">>

\* base_topic of run() for a configured topic.
BaseTopicOf(config) == RStripSlash(config) \o <<"/">>

\* base_topic of run().
BaseTopic == BaseTopicOf(ConfigTopic)

\* The filter mqtt_on_connect subscribes to under a base topic.
SubscribeFilterOf(base) == base \o <<"+", "/", "+", "/", "+", "/", "+", "/", "+">>

\* The filter mqtt_on_connect subscribes to.
SubscribeFilter == SubscribeFilterOf(BaseTopic)

\* subtopic of mqtt_on_message: message.topic[len(userdata['base_topic']):].
Subtopic(base, topic) == DropFirst(topic, Len(base))

\* The qos argument of mqttc.publish.
PublishQos == 1

\* ------------------------------------------------------------------ inputs

StrTok(s) == [tok |-> "str", text |-> s]

NumTok(s) == [tok |-> "num", text |-> s]

TempSuffix == <<"1", "/", "t", "/", "0", "/", "v">>

\* The lines the node can send: a line that is not JSON, a single-element
\* array, and two frames [suffix, number].
SerialLines ==
    << [json |-> FALSE, elems |-> <<>>],
       [json |-> TRUE, elems |-> <<StrTok(TempSuffix)>>],
       [json |-> TRUE, elems |-> <<StrTok(TempSuffix), NumTok(<<"2", "3", ".", "5", "0">>)>>],
       [json |-> TRUE,
        elems |-> <<StrTok(TempSuffix),
                    NumTok(<<"0", ".", "0", "0", "0", "0", "0", "0", "1">>)>>] >>

LineIds == 1..Len(SerialLines)

RelaySuffix == <<"1", "/", "r", "/", "0", "/", "-", "/", "s">>

\* The messages the broker can deliver: payload true, an empty payload and a
\* payload that is not JSON.
BusMessages ==
    << [topic |-> BaseTopic \o RelaySuffix, payload |-> <<"t", "r", "u", "e">>],
       [topic |-> BaseTopic \o RelaySuffix, payload |-> <<>>],
       [topic |-> BaseTopic \o RelaySuffix, payload |-> <<"{">>] >>

MsgIds == 1..Len(BusMessages)

\* Values of config['mqtt']['topic'], set from -t or the configuration file:
\* with no, one and several trailing slashes, empty, a lone slash, of two
\* levels, and a wildcard level.
ConfigTopics ==
    { <<"n">>, <<"n", "/">>, <<"n", "/", "/">>, <<>>, <<"/">>, <<"n", "/", "m">>, <<"+">> }

Segments == <<"1", "r", "0", "-", "s", "x">>

\* The suffix made of the first k segments.
RECURSIVE SuffixN(_)
SuffixN(k) == IF k <= 1 THEN <<Segments[1]>> ELSE SuffixN(k - 1) \o <<"/", Segments[k]>>

\* Suffixes of one to six segments.
Suffixes == {SuffixN(k) : k \in 1..Len(Segments)}

\* The topics messages are published on at the broker: every suffix under
\* every base, and a topic of six levels under no base.
BrokerTopics ==
    {BaseTopicOf(c) \o s : c \in ConfigTopics, s \in Suffixes}
        \cup {<<"m", "m", "/">> \o SuffixN(Len(Segments) - 1)}

\* The payload of those messages.
ProbePayload == <<"t", "r", "u", "e">>

\* ------------------------------------------------------------------ broker

\* The topic levels of a topic or filter: the text between the slashes.
RECURSIVE Levels(_)
Levels(t) ==
    LET i == IndexOf(t, "/")
    IN  IF i = 0 THEN <<t>> ELSE <<TakeFirst(t, i - 1)>> \o Levels(DropFirst(t, i))

\* MQTT matching of a topic against a filter with single-level wildcards.
TopicMatches(filter, topic) ==
    LET f == Levels(filter)
        t == Levels(topic)
    IN  /\ Len(f) = Len(t)
        /\ \A i \in 1..Len(f) : f[i] = <<"+">> \/ f[i] = t[i]

\* ------------------------------------------------------------------ state

VARIABLES
    env,    \* what surrounds the gateway: a second gateway, the node's lines,
            \* the broker's messages
    wait,   \* args.wait
    debug,  \* os.getenv('DEBUG') is set
    linux,  \* platform.system() == 'Linux'
    pc,     \* where each process's main thread is
    err,    \* the exception run() raised in each process
    exit,   \* each process's exit status, -1 while it runs
    talk,   \* the local variable talk of run()
    line,   \* the local variable line of run(): 0 when empty, or the line read
    pub,    \* the mqttc.publish calls of the last turn of the while loop
    sess,   \* per process, the objects of the calls of run() it has made
    out,    \* the last write to the serial device
    topics, \* the topic mapping on its own: config['mqtt']['topic'], what
            \* run() and the callbacks derive from it, and the topic mapped
    writing, \* the calls of ser.write that have not returned yet
    log     \* per process, the exception main() logged last

vars ==
    <<env, wait, debug, linux, pc, err, exit, talk, line, pub, sess, out, topics, writing,
      log>>

\* talk before the first successful json.loads of a session.
Unbound == [bound |-> FALSE, val |-> <<>>]

\* The objects of one call of run(): ser, its flock, the bare newlines its
\* main thread has written, mqttc and its subscription.
NewSession == [ser |-> "none", lock |-> FALSE, nl |-> 0, mqttc |-> "none", sub |-> <<>>]

\* No write yet.
NoWrite ==
    [src |-> "none", by |-> <<0, 0>>, msg |-> 0, ok |-> FALSE, data |-> <<>>]

\* The topic mapping left alone: the configured topic is config['mqtt']['topic']
\* as the program has it by default.
NoTopics ==
    [stage |-> "off", config |-> ConfigTopic, base |-> BaseTopic, filter |-> <<>>,
     suffix |-> <<>>, built |-> <<>>, stripped |-> <<>>, got |-> <<>>, wrote |-> <<>>]

\* Sessions as (process, index) pairs.
Sessions == {s \in Procs \X (1..MaxSessions) : s[2] <= Len(sess[s[1]])}

\* The session the main thread of p is in, or last was in.
Cur(p) == Len(sess[p])

\* The calls of run() so far.
RECURSIVE CountSessions(_)
CountSessions(P) ==
    IF P = {} THEN 0
    ELSE LET p == CHOOSE q \in P : TRUE IN Len(sess[p]) + CountSessions(P \ {p})

\* main() at its while loop, whatever the options and the platform.
Started ==
    /\ wait \in BOOLEAN
    /\ debug \in BOOLEAN
    /\ pc = [p \in Procs |-> "main"]
    /\ err = [p \in Procs |-> "none"]
    /\ exit = [p \in Procs |-> -1]
    /\ talk = [p \in Procs |-> Unbound]
    /\ line = [p \in Procs |-> 0]
    /\ pub = [p \in Procs |-> <<>>]
    /\ sess = [p \in Procs |-> <<>>]
    /\ out = NoWrite
    /\ writing = {}
    /\ log = [p \in Procs |-> "none"]

\* One gateway on the device, with every line, and the messages with an
\* empty payload and with a payload that is not JSON.
Init ==
    /\ env = [second |-> FALSE, lines |-> LineIds, msgs |-> MsgIds \ {1}]
    /\ linux \in BOOLEAN
    /\ Started
    /\ topics = NoTopics

\* Two gateways on the device, on Linux, with one frame and one message.
InitTwo ==
    /\ env = [second |-> TRUE, lines |-> {3}, msgs |-> {1}]
    /\ linux = TRUE
    /\ Started
    /\ topics = NoTopics

\* The topic mapping on its own, for every configured topic: nothing else runs.
InitTopics ==
    /\ env = [second |-> FALSE, lines |-> {}, msgs |-> {}]
    /\ linux = FALSE
    /\ Started
    /\ wait = FALSE
    /\ debug = FALSE
    /\ \E c \in ConfigTopics :
        topics = [NoTopics EXCEPT !.stage = "config", !.config = c, !.base = <<>>]

\* ------------------------------------------------------------------ helpers of the actions

\* A call of ser.write: by the main thread or by the thread of the client of
\* session by, for message msg (0 for the handshake).
WriteCall(src, by, msg) == [src |-> src, by |-> by, msg |-> msg]

\* The thread of the client of session s is inside mqtt_on_message.
InCallback(s) == \E w \in writing : w.src = "callback" /\ w.by = s

\* The calls of ser.write left when process p has ended: its threads are gone.
WritingWithout(p) == {w \in writing : w.by[1] # p}

\* What the operating system does to the objects of a process that ends: its
\* descriptors are closed, which drops their locks, and its daemon threads stop.
Released(ss) ==
    [n \in 1..Len(ss) |->
        [ss[n] EXCEPT !.ser = IF @ = "open" THEN "closed" ELSE @,
                      !.lock = FALSE,
                      !.mqttc = IF @ = "none" THEN @ ELSE "stopped",
                      !.sub = <<>>]]

\* flock without LOCK_NB's refusal: no description is ever seen to hold the lock.
FlockUnseen(s) == FALSE

\* The open file description of session s holds the lock on the device:
\* fcntl.flock(..., LOCK_EX | LOCK_NB) on another description raises.
FlockHeld(s) == sess[s[1]][s[2]].lock

\* json.loads of each line the node can send.
Loaded == [l \in LineIds |-> JsonLoads(SerialLines[l])]

\* talk after the try block around json.loads of line l: rebound on success,
\* left as it was when json.loads raises.
Decoded(t, l) ==
    IF Loaded[l].ok THEN [bound |-> TRUE, val |-> Loaded[l].val] ELSE t

\* The arguments of mqttc.publish can be evaluated: talk is bound, talk[0] is
\* a str and talk[1] exists.
CanPublish(t) == t.bound /\ Len(t.val) >= 2 /\ t.val[1].t = "str"

\* The arguments of the mqttc.publish call.
PublishCall(t) ==
    [topic |-> BaseTopic \o t.val[1].d, payload |-> JsonDumps(t.val[2]), qos |-> PublishQos]

\* The publish calls of one turn of the loop: one when the arguments could be
\* evaluated, with whether mqttc.publish raised, none otherwise.
Published(t, raised) ==
    IF CanPublish(t) THEN << [call |-> PublishCall(t), raised |-> raised] >> ELSE <<>>

\* The publish statement without its except clause: the exception ends run().
AfterPublishUncaught(p, raised) == [pc EXCEPT ![p] = IF raised THEN "except" ELSE @]

\* Where the main threads are after the publish statement of p: its except
\* clause logs and the loop goes on.
AfterPublish(p, raised) == pc

\* mqtt_on_message without the substitution of b'null' for an empty payload.
MessageLineRaw(msg) ==
    <<"[", "\"">> \o DropFirst(msg.topic, Len(BaseTopic)) \o <<"\"", ",">>
        \o msg.payload \o <<"]", "\n">>

\* The bytes mqtt_on_message writes for a message, with base_topic in userdata.
CallbackLine(base, msg) ==
    <<"[", "\"">> \o Subtopic(base, msg.topic) \o <<"\"", ",">>
        \o (IF msg.payload # <<>> THEN msg.payload ELSE <<"n", "u", "l", "l">>)
        \o <<"]", "\n">>

\* The bytes mqtt_on_message writes for a message.
MessageLine(msg) == CallbackLine(BaseTopic, msg)

\* The frame written for each message the broker can deliver.
Frames == [m \in MsgIds |-> MessageLine(BusMessages[m])]

\* The messages the broker delivers to a client subscribed with the filter.
Matching == [f \in {SubscribeFilter} |-> {m \in MsgIds : TopicMatches(f, BusMessages[m].topic)}]

\* ------------------------------------------------------------------ run()

\* run() with the handshake write before the flock: the session comes to its
\* write with no lock taken yet.
RunOpenLockLater(p) ==
    /\ pc[p] = "main"
    /\ CountSessions(Procs) < MaxSessions
    /\ p # 1 => env.second /\ sess[1] # <<>>
    /\ \E opened \in BOOLEAN :
        /\ sess' = [sess EXCEPT ![p] =
                        Append(@, [NewSession EXCEPT !.ser = IF opened THEN "open" ELSE "none"])]
        /\ pc' = [pc EXCEPT ![p] = IF opened THEN "handshake" ELSE "except"]
        /\ err' = [err EXCEPT ![p] = IF opened THEN "none" ELSE "open"]
    /\ UNCHANGED <<env, topics, log, writing, wait, debug, linux, exit, talk, line, pub, out>>

\* run() with the exception of a refused flock swallowed: the session goes on
\* without the lock.
RunOpenUnlocked(p) ==
    /\ pc[p] = "main"
    /\ CountSessions(Procs) < MaxSessions
    /\ p # 1 => env.second /\ sess[1] # <<>>
    /\ \E opened \in BOOLEAN :
        LET refused == linux /\ \E s \in Sessions : FlockHeld(s)
        IN  /\ sess' = [sess EXCEPT ![p] =
                            Append(@, [NewSession EXCEPT
                                          !.ser = IF opened THEN "open" ELSE "none",
                                          !.lock = opened /\ linux /\ ~refused])]
            /\ pc' = [pc EXCEPT ![p] = IF opened THEN "handshake" ELSE "except"]
            /\ err' = [err EXCEPT ![p] = IF opened THEN "none" ELSE "open"]
    /\ UNCHANGED <<env, topics, log, writing, wait, debug, linux, exit, talk, line, pub, out>>

\* run() is called and opens the device, serial.Serial(config['device']),
\* and on Linux takes the exclusive non-blocking lock.  An open that fails
\* leaves no Serial object; a refused lock leaves it open.
\* The second gateway, when there is one, is started after the first.
RunOpen(p) ==
    /\ pc[p] = "main"
    /\ CountSessions(Procs) < MaxSessions
    /\ p # 1 => env.second /\ sess[1] # <<>>
    /\ \E opened \in BOOLEAN :
        LET refused == linux /\ \E s \in Sessions : FlockHeld(s)
            failed == IF ~opened THEN "open" ELSE IF refused THEN "lock" ELSE "none"
        IN  /\ sess' = [sess EXCEPT ![p] =
                            Append(@, [NewSession EXCEPT
                                          !.ser = IF opened THEN "open" ELSE "none",
                                          !.lock = opened /\ linux /\ ~refused])]
            /\ pc' = [pc EXCEPT ![p] = IF failed = "none" THEN "handshake" ELSE "except"]
            /\ err' = [err EXCEPT ![p] = failed]
    /\ UNCHANGED <<env, topics, log, writing, wait, debug, linux, exit, talk, line, pub, out>>

\* The main thread calls ser.write(b'\n').
RunHandshakeWrite(p) ==
    /\ pc[p] = "handshake"
    /\ pc' = [pc EXCEPT ![p] = "writing"]
    /\ writing' = writing \cup {WriteCall("main", <<p, Cur(p)>>, 0)}
    /\ UNCHANGED <<env, topics, log, wait, debug, linux, err, exit, talk, line, pub, sess, out>>

\* ser.write(b'\n') returns or raises.
RunHandshake(p) ==
    /\ pc[p] = "writing"
    /\ \E ok \in BOOLEAN :
        /\ out' = [src |-> "main", by |-> <<p, Cur(p)>>, msg |-> 0, ok |-> ok,
                   data |-> IF ok THEN <<"\n">> ELSE <<>>]
        /\ pc' = [pc EXCEPT ![p] = IF ok THEN "connect" ELSE "except"]
        /\ err' = [err EXCEPT ![p] = IF ok THEN @ ELSE "write"]
        /\ sess' = [sess EXCEPT ![p][Cur(p)].nl = IF ok THEN @ + 1 ELSE @]
    /\ writing' = writing \ {WriteCall("main", <<p, Cur(p)>>, 0)}
    /\ UNCHANGED <<env, topics, log, wait, debug, linux, exit, talk, line, pub>>

\* mqttc.connect in a try block that swallows the exception and tries again.
RunConnectRetry(p) ==
    /\ pc[p] = "connect"
    /\ \E ok \in BOOLEAN :
        /\ sess' = [sess EXCEPT ![p][Cur(p)].mqttc = IF ok THEN "connecting" ELSE "idle"]
        /\ pc' = [pc EXCEPT ![p] = IF ok THEN "loop" ELSE @]
        /\ err' = [err EXCEPT ![p] = IF ok THEN "none" ELSE "connect"]
    /\ UNCHANGED <<env, topics, log, writing, wait, debug, linux, exit, talk, line, pub, out>>

\* The client created and connected before the handshake write.
RunConnectEarly(p) ==
    /\ pc[p] = "handshake"
    /\ \E ok \in BOOLEAN :
        /\ sess' = [sess EXCEPT ![p][Cur(p)].mqttc = IF ok THEN "connecting" ELSE "idle"]
        /\ pc' = [pc EXCEPT ![p] = IF ok THEN "loop" ELSE "except"]
        /\ err' = [err EXCEPT ![p] = IF ok THEN @ ELSE "connect"]
    /\ UNCHANGED <<env, topics, log, writing, wait, debug, linux, exit, talk, line, pub, out>>

\* The client is created and connected, and its thread started.
RunConnect(p) ==
    /\ pc[p] = "connect"
    /\ \E ok \in BOOLEAN :
        /\ sess' = [sess EXCEPT ![p][Cur(p)].mqttc = IF ok THEN "connecting" ELSE "idle"]
        /\ pc' = [pc EXCEPT ![p] = IF ok THEN "loop" ELSE "except"]
        /\ err' = [err EXCEPT ![p] = IF ok THEN @ ELSE "connect"]
    /\ UNCHANGED <<env, topics, log, writing, wait, debug, linux, exit, talk, line, pub, out>>

\* The except clause of ser.readline() without ser.close().
RunReadFailOpen(p) ==
    /\ pc[p] = "loop"
    /\ pc' = [pc EXCEPT ![p] = "except"]
    /\ err' = [err EXCEPT ![p] = "read"]
    /\ UNCHANGED <<env, topics, log, writing, wait, debug, linux, exit, talk, line, pub, sess, out>>

\* One turn of the while loop in which ser.readline() raises SerialException:
\* ser.close() and the exception goes on.
RunReadFail(p) ==
    /\ pc[p] = "loop"
    /\ sess' = [sess EXCEPT ![p][Cur(p)].ser = "closed", ![p][Cur(p)].lock = FALSE]
    /\ pc' = [pc EXCEPT ![p] = "except"]
    /\ err' = [err EXCEPT ![p] = "read"]
    /\ UNCHANGED <<env, topics, log, writing, wait, debug, linux, exit, talk, line, pub, out>>

\* The turn of an empty line without the test "if line:": the publish
\* statement runs on what talk holds.
RunReadEmptyPublishes(p) ==
    /\ pc[p] = "loop"
    /\ line' = [line EXCEPT ![p] = 0]
    /\ pub' = [pub EXCEPT ![p] = Published(talk[p], FALSE)]
    /\ UNCHANGED <<env, topics, log, writing, wait, debug, linux, pc, err, exit, talk, sess, out>>

\* One turn of the while loop in which ser.readline() times out: line is empty.
RunReadEmpty(p) ==
    /\ pc[p] = "loop"
    /\ line' = [line EXCEPT ![p] = 0]
    /\ pub' = [pub EXCEPT ![p] = <<>>]
    /\ UNCHANGED <<env, topics, log, writing, wait, debug, linux, pc, err, exit, talk, sess, out>>

\* One turn of the while loop in which ser.readline() returns a line: decode,
\* then publish.
RunReadLine(p) ==
    /\ pc[p] = "loop"
    /\ \E l \in env.lines, raised \in BOOLEAN :
        LET t == Decoded(talk[p], l)
        IN  /\ raised => CanPublish(t)
            /\ line' = [line EXCEPT ![p] = l]
            /\ talk' = [talk EXCEPT ![p] = t]
            /\ pub' = [pub EXCEPT ![p] = Published(t, raised)]
            /\ pc' = AfterPublish(p, raised)
    /\ UNCHANGED <<env, topics, log, writing, wait, debug, linux, err, exit, sess, out>>

\* ------------------------------------------------------------------ the paho thread

\* CONNACK arrives: mqtt_on_connect subscribes.
MqttOnConnect(p, n) ==
    /\ sess[p][n].mqttc = "connecting"
    /\ sess' = [sess EXCEPT ![p][n].mqttc = "up", ![p][n].sub = SubscribeFilter]
    /\ UNCHANGED <<env, topics, log, writing, wait, debug, linux, pc, err, exit, talk, line, pub, out>>

\* The subscription made once after the first connect and not in
\* mqtt_on_connect: the connection is lost and made again, and the broker has
\* no subscription of the new connection.
MqttReconnectUnsubscribed(p, n) ==
    /\ sess[p][n].mqttc = "up"
    /\ ~InCallback(<<p, n>>)
    /\ sess[p][n].sub # <<>>
    /\ sess' = [sess EXCEPT ![p][n].sub = <<>>]
    /\ UNCHANGED <<env, topics, log, writing, wait, debug, linux, pc, err, exit, talk, line, pub, out>>

\* The connection is lost; the thread started by loop_start() connects again.
MqttReconnect(p, n) ==
    /\ sess[p][n].mqttc = "up"
    /\ ~InCallback(<<p, n>>)
    /\ sess' = [sess EXCEPT ![p][n].mqttc = "connecting", ![p][n].sub = <<>>]
    /\ UNCHANGED <<env, topics, log, writing, wait, debug, linux, pc, err, exit, talk, line, pub, out>>

\* The broker delivers a message that matches the subscription: the thread
\* of the client runs mqtt_on_message, which calls userdata['serial'].write.
MqttOnMessageWrite(p, n) ==
    /\ sess[p][n].mqttc = "up"
    /\ ~InCallback(<<p, n>>)
    /\ \E m \in Matching[sess[p][n].sub] \cap env.msgs :
        writing' = writing \cup {WriteCall("callback", <<p, n>>, m)}
    /\ UNCHANGED <<env, topics, log, wait, debug, linux, pc, err, exit, talk, line, pub, sess, out>>

\* The write of mqtt_on_message returns, or raises, which ends the thread.
\* It raises when the port has been closed.
MqttOnMessage(p, n) ==
    /\ sess[p][n].mqttc = "up"
    /\ \E w \in writing, ok \in BOOLEAN :
        /\ w.src = "callback" /\ w.by = <<p, n>>
        /\ ok => sess[p][n].ser = "open"
        /\ out' = [src |-> "callback", by |-> <<p, n>>, msg |-> w.msg, ok |-> ok,
                   data |-> IF ok THEN Frames[w.msg] ELSE <<>>]
        /\ sess' = [sess EXCEPT ![p][n].mqttc = IF ok THEN @ ELSE "crashed"]
        /\ writing' = writing \ {w}
    /\ UNCHANGED <<env, topics, log, wait, debug, linux, pc, err, exit, talk, line, pub>>

\* ------------------------------------------------------------------ main()

\* The frame of run() is gone once its exception has been handled.
NoFrame(f, p, init) == [f EXCEPT ![p] = init]

\* except Exception as e: the error is logged and, with DEBUG set, raised
\* again: the process ends with a traceback and exit status 1.
MainRaise(p) ==
    /\ pc[p] = "except"
    /\ debug
    /\ pc' = [pc EXCEPT ![p] = "crashed"]
    /\ exit' = [exit EXCEPT ![p] = 1]
    /\ sess' = [sess EXCEPT ![p] = Released(@)]
    /\ talk' = NoFrame(talk, p, Unbound)
    /\ line' = NoFrame(line, p, 0)
    /\ pub' = NoFrame(pub, p, <<>>)
    /\ writing' = WritingWithout(p)
    /\ log' = [log EXCEPT ![p] = err[p]]
    /\ UNCHANGED <<env, topics, wait, debug, linux, err, out>>

\* The loop of main() with the test of args.wait inverted: it breaks.
MainWaitBreaks(p) ==
    /\ pc[p] = "except"
    /\ ~debug
    /\ wait
    /\ pc' = [pc EXCEPT ![p] = "exited"]
    /\ err' = [err EXCEPT ![p] = "none"]
    /\ exit' = [exit EXCEPT ![p] = 0]
    /\ sess' = [sess EXCEPT ![p] = Released(@)]
    /\ talk' = NoFrame(talk, p, Unbound)
    /\ line' = NoFrame(line, p, 0)
    /\ pub' = NoFrame(pub, p, <<>>)
    /\ writing' = WritingWithout(p)
    /\ log' = [log EXCEPT ![p] = err[p]]
    /\ UNCHANGED <<env, topics, wait, debug, linux, out>>

\* The error is logged; if args.wait: time.sleep(3), and the loop calls run()
\* again.
MainWait(p) ==
    /\ pc[p] = "except"
    /\ ~debug
    /\ wait
    /\ pc' = [pc EXCEPT ![p] = "main"]
    /\ err' = [err EXCEPT ![p] = "none"]
    /\ talk' = NoFrame(talk, p, Unbound)
    /\ line' = NoFrame(line, p, 0)
    /\ pub' = NoFrame(pub, p, <<>>)
    /\ log' = [log EXCEPT ![p] = err[p]]
    /\ UNCHANGED <<env, topics, writing, wait, debug, linux, exit, sess, out>>

\* The error is logged; else: break.  main() returns and the interpreter
\* exits with status 0.
MainBreak(p) ==
    /\ pc[p] = "except"
    /\ ~debug
    /\ ~wait
    /\ pc' = [pc EXCEPT ![p] = "exited"]
    /\ err' = [err EXCEPT ![p] = "none"]
    /\ exit' = [exit EXCEPT ![p] = 0]
    /\ sess' = [sess EXCEPT ![p] = Released(@)]
    /\ talk' = NoFrame(talk, p, Unbound)
    /\ line' = NoFrame(line, p, 0)
    /\ pub' = NoFrame(pub, p, <<>>)
    /\ writing' = WritingWithout(p)
    /\ log' = [log EXCEPT ![p] = err[p]]
    /\ UNCHANGED <<env, topics, wait, debug, linux, out>>

\* The Serial object of a call of run() that has ended, closed by nobody and
\* referenced by no thread, is finalized: its descriptor is closed.
Finalize(p, n) ==
    /\ n < Cur(p) \/ pc[p] = "main"
    /\ sess[p][n].ser = "open"
    /\ sess[p][n].mqttc \in {"none", "idle"}
    /\ sess' = [sess EXCEPT ![p][n].ser = "closed", ![p][n].lock = FALSE]
    /\ UNCHANGED <<env, topics, log, writing, wait, debug, linux, pc, err, exit, talk, line, pub, out>>

Next ==
    \/ \E p \in Procs : RunOpen(p)
    \/ \E p \in Procs : RunHandshakeWrite(p)
    \/ \E p \in Procs : RunHandshake(p)
    \/ \E p \in Procs : RunConnect(p)
    \/ \E p \in Procs : RunReadFail(p)
    \/ \E p \in Procs : RunReadEmpty(p)
    \/ \E p \in Procs : RunReadLine(p)
    \/ \E s \in Sessions : MqttOnConnect(s[1], s[2])
    \/ \E s \in Sessions : MqttReconnect(s[1], s[2])
    \/ \E s \in Sessions : MqttOnMessageWrite(s[1], s[2])
    \/ \E s \in Sessions : MqttOnMessage(s[1], s[2])
    \/ \E p \in Procs : MainRaise(p)
    \/ \E p \in Procs : MainWait(p)
    \/ \E p \in Procs : MainBreak(p)
    \/ \E s \in Sessions : Finalize(s[1], s[2])

Spec == Init /\ [][Next]_vars

\* Two gateways started against the same device.
TwoSpec == InitTwo /\ [][Next]_vars

\* The main thread of every process keeps running: an exception raised by
\* run() is handled and the statement after the handler is executed.
FairSpec ==
    /\ Spec
    /\ \A p \in Procs : WF_vars(MainRaise(p)) /\ WF_vars(MainWait(p)) /\ WF_vars(MainBreak(p))

\* ------------------------------------------------------------------ the topic mapping

\* run() computes base_topic.
TopicRun ==
    /\ topics.stage = "config"
    /\ topics' = [topics EXCEPT !.stage = "run", !.base = BaseTopicOf(topics.config)]
    /\ UNCHANGED <<env, wait, debug, linux, pc, err, exit, talk, line, pub, sess, out, writing, log>>

\* mqtt_on_connect subscribes under base_topic.
TopicSubscribe ==
    /\ topics.stage = "run"
    /\ topics.filter = <<>>
    /\ topics' = [topics EXCEPT !.filter = SubscribeFilterOf(topics.base)]
    /\ UNCHANGED <<env, wait, debug, linux, pc, err, exit, talk, line, pub, sess, out, writing, log>>

\* A suffix goes to the bus and back: run() builds base_topic + talk[0] and
\* mqtt_on_message strips base_topic from that topic.
TopicRoundTrip(s) ==
    /\ topics.stage = "run"
    /\ topics' = [topics EXCEPT !.suffix = s,
                                !.built = topics.base \o s,
                                !.stripped = Subtopic(topics.base, topics.base \o s)]
    /\ UNCHANGED <<env, wait, debug, linux, pc, err, exit, talk, line, pub, sess, out, writing, log>>

\* The broker delivers a message on a topic that matches the subscription:
\* mqtt_on_message writes its line.
TopicDeliver(t) ==
    /\ topics.filter # <<>>
    /\ TopicMatches(topics.filter, t)
    /\ topics' = [topics EXCEPT !.got = t,
                                !.wrote = CallbackLine(topics.base,
                                                       [topic |-> t, payload |-> ProbePayload])]
    /\ UNCHANGED <<env, wait, debug, linux, pc, err, exit, talk, line, pub, sess, out, writing, log>>

TopicNext ==
    \/ TopicRun
    \/ TopicSubscribe
    \/ \E s \in Suffixes : TopicRoundTrip(s)
    \/ \E t \in BrokerTopics : TopicDeliver(t)

\* The topic mapping for every configured topic.
TopicSpec == InitTopics /\ [][TopicNext]_vars

\* ------------------------------------------------------------------ vocabulary of the properties

\* The session of p is Running: its main thread is in the while loop.
Running(p) == pc[p] = "loop"

\* The process has ended.
Stopped == {"exited", "crashed"}

\* A line that is not JSON, or a single-element array.
Malformed(l) == ~SerialLines[l].json \/ Len(SerialLines[l].elems) = 1

\* A line [suffix, payload] with a string suffix.
IsFrame(l) ==
    /\ SerialLines[l].json
    /\ Len(SerialLines[l].elems) >= 2
    /\ SerialLines[l].elems[1].tok = "str"

\* The bus client of session n of p is connected or connecting, with its
\* thread running.
ActiveClient(p, n) == sess[p][n].mqttc \in {"connecting", "up"}

\* The step is a turn of the while loop of p.
LoopTurn(p) == pc[p] = "loop" /\ (line'[p] # line[p] \/ pub'[p] # pub[p])

\* The step is a write attempt of the message callback of session s.
CallbackWrite(s) == out' # out /\ out'.src = "callback" /\ out'.by = s

\* The text after the base in a topic under the base.
SuffixOf(topic) == SubSeq(topic, Len(BaseTopic) + 1, Len(topic))

JsonNull == <<"n", "u", "l", "l">>

\* ------------------------------------------------------------------ C1

\* C1: a line that is not JSON or is a single-element array causes no publish
\* in its turn of the loop, and a frame read in any turn, also after such a
\* line, is published exactly once on its own topic.
MalformedLineIsolated ==
    \A p \in Procs :
        line[p] # 0 =>
            /\ Malformed(line[p]) => pub[p] = <<>>
            /\ IsFrame(line[p]) =>
                   /\ Len(pub[p]) = 1
                   /\ pub[p][1].call.topic = BaseTopic \o SerialLines[line[p]].elems[1].text

\* ------------------------------------------------------------------ C2

\* C2: when run() has ended and main() handles its exception, the session's
\* serial port is not open and its bus client is neither connected nor
\* connecting.
TerminatedSessionClosed ==
    \A p \in Procs :
        pc[p] = "except" =>
            /\ sess[p][Cur(p)].ser # "open"
            /\ ~ActiveClient(p, Cur(p))

\* ------------------------------------------------------------------ C3

\* The lock attempt of p's new session is refused in this step.
LockRefusedStep(p) == pc[p] = "main" /\ pc'[p] = "except" /\ err'[p] = "lock"

\* C3: at most one session holds the lock on the device at any time; a session
\* that opens the device while another holds the lock ends with the lock
\* error, and that step changes nothing of any other session: the holder keeps
\* its lock, its state and what it has read, published and written.
ExclusiveLock ==
    /\ [](Cardinality({s \in Sessions : sess[s[1]][s[2]].lock}) <= 1)
    /\ [][\A p \in Procs :
            /\ (/\ pc[p] = "main"
                /\ Len(sess'[p]) > Len(sess[p])
                /\ sess'[p][Len(sess'[p])].ser = "open"
                /\ \E s \in Sessions : sess[s[1]][s[2]].lock)
               => LockRefusedStep(p)
            /\ LockRefusedStep(p) =>
                /\ \E s \in Sessions : sess[s[1]][s[2]].lock
                /\ ~sess'[p][Len(sess'[p])].lock
                /\ \A s \in Sessions : sess'[s[1]][s[2]] = sess[s[1]][s[2]]
                /\ \A q \in Procs \ {p} : pc'[q] = pc[q] /\ err'[q] = err[q]
                /\ UNCHANGED <<talk, line, pub, out>>]_vars

\* C3 witness: the lock of one gateway has been refused while the other is
\* Running with the lock.
LockRefusedWhileRunning ==
    \E p \in Procs, q \in Procs :
        /\ p # q
        /\ pc[p] = "except" /\ err[p] = "lock"
        /\ Running(q) /\ sess[q][Cur(q)].lock

\* ------------------------------------------------------------------ C4

\* C4 as claimed: with -W no process ever ends, DEBUG set or not.
WaitNeverStops == wait => \A p \in Procs : pc[p] \notin Stopped

\* C4 amended: with -W and DEBUG unset no process ever ends, and every
\* session that ends is followed by main() calling run() again.
WaitRestarts ==
    \A p \in Procs :
        /\ [](wait /\ ~debug => pc[p] \notin Stopped)
        /\ (wait /\ ~debug /\ pc[p] = "except") ~> (pc[p] = "main")

\* C4 witness: with -W and DEBUG unset a process is in its second session.
SecondSessionStarted ==
    wait /\ ~debug /\ \E p \in Procs : Len(sess[p]) >= 2 /\ pc[p] \notin {"main", "except"}

\* ------------------------------------------------------------------ C5

\* C5: without -W a process makes one call of run() and ends with a status
\* that is not 0.
NoWaitExitsWithFailure ==
    ~wait => \A p \in Procs : Len(sess[p]) <= 1 /\ (pc[p] \in Stopped => exit[p] # 0)

\* ------------------------------------------------------------------ C6

\* C6: once a write of the session's message callback has failed, the while
\* loop of the session reads and publishes no more.
WriteFailureStopsLoop ==
    [][\A p \in Procs :
        (Running(p) /\ sess[p][Cur(p)].mqttc = "crashed")
            => (line'[p] = line[p] /\ pub'[p] = pub[p])]_vars

\* ------------------------------------------------------------------ C7

\* C7: at most one session of a process has an active bus client.
OneLiveSession ==
    \A p \in Procs : Cardinality({n \in 1..Len(sess[p]) : ActiveClient(p, n)}) <= 1

\* ------------------------------------------------------------------ C8

\* C8: a turn of the loop whose publish raises leaves the session Running and
\* touches neither the serial port, the bus client nor the last write; a write
\* of the message callback carries the payload as delivered, whatever it is,
\* and touches nothing of any main thread; and every frame read is published,
\* whatever was written before.
DirectionsIndependent ==
    /\ [][\A p \in Procs :
            (LoopTurn(p) /\ pub'[p] # <<>> /\ pub'[p][1].raised)
                => (Running(p)' /\ sess' = sess /\ out' = out)]_vars
    /\ [][\A s \in Sessions :
            CallbackWrite(s) =>
                /\ UNCHANGED <<pc, err, talk, line, pub>>
                /\ (out'.ok /\ BusMessages[out'.msg].payload # <<>>) =>
                       \E i \in 1..Len(out'.data) :
                           SubSeq(out'.data, i, Len(out'.data))
                               = BusMessages[out'.msg].payload \o <<"]", "\n">>]_vars
    /\ [](\A p \in Procs : (line[p] # 0 /\ IsFrame(line[p])) => Len(pub[p]) = 1)

\* C8 witness: in a Running session the last publish raised, the callback has
\* written the frame of the payload that is not JSON, and the client is up.
BothDirectionsDisturbed ==
    \E p \in Procs :
        /\ Running(p)
        /\ pub[p] # <<>> /\ pub[p][1].raised
        /\ out.src = "callback" /\ out.ok /\ out.by = <<p, Cur(p)>>
        /\ BusMessages[out.msg].payload = <<"{">>
        /\ sess[p][Cur(p)].mqttc = "up"

\* ------------------------------------------------------------------ C9

\* C9: what the message callback has written for a message on base+suffix
\* with payload p is the one line ["suffix",p] and a newline, p as delivered,
\* and null in place of an empty p.
BusToSerialFrame ==
    (out.src = "callback" /\ out.ok) =>
        LET m == BusMessages[out.msg]
        IN  /\ m.topic = BaseTopic \o SuffixOf(m.topic)
            /\ out.data = <<"[", "\"">> \o SuffixOf(m.topic) \o <<"\"", ",">>
                             \o (IF m.payload = <<>> THEN JsonNull ELSE m.payload)
                             \o <<"]", "\n">>
            /\ \A i \in 1..(Len(out.data) - 1) : out.data[i] # "\n"

\* C9 witness: the callback has written the frame of a message with an empty
\* payload.
EmptyPayloadWritten ==
    out.src = "callback" /\ out.ok /\ BusMessages[out.msg].payload = <<>>

\* ------------------------------------------------------------------ C10

\* C10: a frame [suffix, payload] read in a turn of the loop is published
\* once, on base+suffix with qos 1, and the payload text is the number as the
\* line had it.
SerialToBusExact ==
    \A p \in Procs :
        (line[p] # 0 /\ IsFrame(line[p])) =>
            /\ Len(pub[p]) = 1
            /\ pub[p][1].call.topic = BaseTopic \o SerialLines[line[p]].elems[1].text
            /\ pub[p][1].call.qos = 1
            /\ pub[p][1].call.payload = SerialLines[line[p]].elems[2].text

\* ------------------------------------------------------------------ C11

\* text starts with prefix.
StartsWith(text, prefix) ==
    Len(text) >= Len(prefix) /\ SubSeq(text, 1, Len(prefix)) = prefix

\* C11: whatever the configured topic, base_topic ends with exactly one slash,
\* and a suffix put after base_topic and stripped as mqtt_on_message strips it
\* comes back as it was.
TopicBijection ==
    topics.stage = "run" =>
        /\ LET b == topics.base
           IN  /\ b # <<>> /\ b[Len(b)] = "/"
               /\ Len(b) >= 2 => b[Len(b) - 1] # "/"
        /\ topics.built # <<>> =>
               /\ topics.built = topics.base \o topics.suffix
               /\ StartsWith(topics.built, topics.base)
               /\ topics.stripped = topics.suffix

\* C11 witness: with a configured topic of several trailing slashes a suffix
\* of six segments has gone to the bus and back.
SixSegmentsRoundTrip ==
    /\ topics.config = <<"n", "/", "/">>
    /\ topics.suffix = SuffixN(Len(Segments))
    /\ topics.stripped = topics.suffix

\* ------------------------------------------------------------------ C12

\* C12: for a delivered message whose topic does not start with base_topic
\* the callback writes nothing.
OutsideBaseIgnored ==
    (topics.got # <<>> /\ ~StartsWith(topics.got, topics.base)) => topics.wrote = <<>>

\* ------------------------------------------------------------------ C13

\* The call of ser.write is on a port that is open: it can put bytes on the
\* device.
OnDevice(w) == sess[w.by[1]][w.by[2]].ser = "open"

\* C13: of the calls of ser.write a process has not returned from, by its main
\* thread and by the client threads of all its sessions, at most one is on an
\* open port.
SerializedWrites ==
    \A p \in Procs : Cardinality({w \in writing : w.by[1] = p /\ OnDevice(w)}) <= 1

\* C13 witness: the main thread is in the handshake write of a later session
\* while the client thread of an earlier session of the process is still in
\* mqtt_on_message, on its closed port.
HandshakeDuringOldCallback ==
    \E w \in writing, v \in writing :
        /\ w.src = "main" /\ OnDevice(w)
        /\ v.src = "callback" /\ v.by[1] = w.by[1] /\ v.by[2] < w.by[2] /\ ~OnDevice(v)

\* ------------------------------------------------------------------ C14

\* The calls of ser.write made in this step.
NewCalls == writing' \ writing

\* C14: a session that is Running, or has a bus client at all, has written
\* exactly one bare newline from its main thread; that write is called with
\* no client yet and nothing written before, and has returned before there is
\* a client; and a callback writes only in a session whose newline is written.
HandshakeFirst ==
    /\ [](\A s \in Sessions :
            LET o == sess[s[1]][s[2]]
            IN  /\ o.nl <= 1
                /\ o.mqttc # "none" => o.nl = 1
                /\ (s[2] = Cur(s[1]) /\ Running(s[1])) => o.nl = 1
                /\ WriteCall("main", s, 0) \in writing => o.mqttc = "none" /\ o.nl = 0)
    /\ [][\A w \in NewCalls :
            LET o == sess[w.by[1]][w.by[2]]
            IN  /\ w.src = "main" =>
                       /\ pc[w.by[1]] = "handshake" /\ w.by[2] = Cur(w.by[1])
                       /\ o.nl = 0 /\ o.mqttc = "none"
                /\ w.src = "callback" => o.nl = 1]_vars
    /\ [][(out' # out /\ out'.src = "main" /\ out'.ok) => out'.data = <<"\n">>]_vars

\* C14 witness: in a Running session the newline is written and the callback
\* has written a frame after it.
FrameAfterHandshake ==
    \E p \in Procs :
        /\ Running(p)
        /\ sess[p][Cur(p)].nl = 1
        /\ out.src = "callback" /\ out.ok /\ out.by = <<p, Cur(p)>>

\* ------------------------------------------------------------------ C15

\* C15: on Linux a session that is connecting its client or Running holds the
\* lock on the device, and a client is created only in a session that holds
\* it; a session whose lock is refused ends in that very step, and has no
\* client.
LockBeforeBus ==
    /\ [](\A p \in Procs :
            /\ (linux /\ pc[p] \in {"connect", "loop"}) => sess[p][Cur(p)].lock
            /\ (pc[p] = "except" /\ err[p] = "lock") => sess[p][Cur(p)].mqttc = "none")
    /\ [][\A p \in Procs :
            /\ (/\ linux
                /\ Len(sess'[p]) > Len(sess[p])
                /\ sess'[p][Len(sess'[p])].ser = "open"
                /\ ~sess'[p][Len(sess'[p])].lock)
               => (pc'[p] = "except" /\ err'[p] = "lock")
            /\ (/\ linux
                /\ Len(sess'[p]) = Len(sess[p])
                /\ sess[p] # <<>>
                /\ sess[p][Cur(p)].mqttc = "none"
                /\ sess'[p][Cur(p)].mqttc # "none")
               => sess[p][Cur(p)].lock]_vars

\* C15 witness: one gateway is Running with the lock and its client up, the
\* lock of the other has been refused and it has no client.
RefusedWithoutClient ==
    \E p \in Procs, q \in Procs :
        /\ p # q
        /\ pc[p] = "except" /\ err[p] = "lock" /\ sess[p][Cur(p)].mqttc = "none"
        /\ Running(q) /\ sess[q][Cur(q)].lock /\ sess[q][Cur(q)].mqttc = "up"

\* ------------------------------------------------------------------ C16

\* The failures of the open, the lock, the connect and the read.
Fatal == {"open", "lock", "connect", "read"}

\* The failure that the step of p's main thread met, "none" when it met none:
\* the device did not open, the lock was refused, the connect raised, the
\* read raised and the port was closed.
FailureMet(p) ==
    IF Len(sess'[p]) > Len(sess[p])
    THEN LET o == sess'[p][Len(sess'[p])]
         IN  IF o.ser = "none" THEN "open" ELSE IF linux /\ ~o.lock THEN "lock" ELSE "none"
    ELSE IF pc[p] = "connect" /\ sess'[p][Cur(p)].mqttc = "idle" THEN "connect"
    ELSE IF pc[p] = "loop" /\ sess'[p][Cur(p)].ser = "closed" THEN "read"
    ELSE "none"

\* C16: a step in which the open, the lock, the connect or the read fails puts
\* main() in its except clause with that failure, in that very step; a main
\* thread that has met one of them is never in run(); and the except clause
\* is left only with the failure logged, to the loop of main() or out of it.
FatalEndsSession ==
    /\ [][\A p \in Procs :
            FailureMet(p) # "none" => (pc'[p] = "except" /\ err'[p] = FailureMet(p))]_vars
    /\ [](\A p \in Procs : err[p] \in Fatal => pc[p] \in {"except", "crashed"})
    /\ [][\A p \in Procs :
            (pc[p] = "except" /\ pc'[p] # "except") =>
                /\ log'[p] = err[p]
                /\ pc'[p] \in {"main", "exited", "crashed"}]_vars

\* C16 witness: main() has logged one of the four failures, has called run()
\* again and is in its except clause with another of them.
TwoFailuresHandled ==
    \E p \in Procs :
        /\ pc[p] = "except"
        /\ err[p] \in Fatal /\ log[p] \in Fatal /\ err[p] # log[p]

\* ------------------------------------------------------------------ C17

\* C17: every connect, the first and each one after a lost connection, ends
\* with the subscription to base_topic + "+/+/+/+/+" made, and a client that
\* is connected is subscribed to it.
SubscribedWhenUp ==
    /\ [](\A s \in Sessions :
            sess[s[1]][s[2]].mqttc = "up" =>
                sess[s[1]][s[2]].sub = BaseTopic \o <<"+", "/", "+", "/", "+", "/", "+", "/", "+">>)
    /\ [][\A s \in Sessions :
            (sess[s[1]][s[2]].mqttc = "connecting" /\ sess'[s[1]][s[2]].mqttc = "up")
                => sess'[s[1]][s[2]].sub = SubscribeFilter]_vars

\* C17 witness: a client that was connected and subscribed, its callback
\* having written the frame of a message delivered under the subscription,
\* has lost its connection and is connecting again, to subscribe again.
ConnectingAgain ==
    \E s \in Sessions :
        /\ sess[s[1]][s[2]].mqttc = "connecting"
        /\ sess[s[1]][s[2]].sub = <<>>
        /\ out.src = "callback" /\ out.ok /\ out.by = s

\* ------------------------------------------------------------------ C18

\* The mqttc.publish calls of the last turn of p's loop, in order.
CallsOf(p) == [i \in 1..Len(pub[p]) |-> pub[p][i].call]

\* C18: turn by turn, the publish calls are those of the valid lines read, one
\* call for the frame of a valid line and none for any other line, and what
\* the callback writes for a message is the frame of that message: nothing
\* is published or written twice or out of its turn.
OrderPreserved ==
    /\ \A p \in Procs :
            line[p] # 0 =>
                CallsOf(p) = IF IsFrame(line[p])
                             THEN <<PublishCall([bound |-> TRUE, val |-> Loaded[line[p]].val])>>
                             ELSE <<>>
    /\ (out.src = "callback" /\ out.ok) => out.data = Frames[out.msg]

\* ------------------------------------------------------------------ C19

\* C19: on Linux every call of ser.write on an open port is made by a session
\* that holds the lock, and a session whose port is open without the lock,
\* its lock having been refused, has written nothing: no newline, no call in
\* progress, and the last write is not its own.
NoWriteWithoutLock ==
    /\ [][\A w \in NewCalls :
            (linux /\ OnDevice(w)) => sess[w.by[1]][w.by[2]].lock]_vars
    /\ [](\A s \in Sessions :
            LET o == sess[s[1]][s[2]]
            IN  (linux /\ o.ser = "open" /\ ~o.lock) =>
                    /\ o.nl = 0
                    /\ \A w \in writing : w.by # s
                    /\ out.by # s)

\* C19 witness: the lock of one gateway has been refused, and the last write
\* to the device is a frame written by the gateway that holds the lock.
RefusedWroteNothing ==
    \E p \in Procs, q \in Procs :
        /\ p # q
        /\ pc[p] = "except" /\ err[p] = "lock" /\ sess[p][Cur(p)].nl = 0
        /\ sess[q] # <<>> /\ sess[q][Cur(q)].lock
        /\ out.by = <<q, Cur(q)>> /\ out.src = "callback" /\ out.ok

\* ------------------------------------------------------------------ C20

\* C20: a step that takes a session out of Running is a failed read, which
\* puts main() in its except clause with the port closed; a turn of the loop,
\* whatever the line and whether or not the publish raises, and a step of the
\* client of the session, its connection lost or found again, leave it
\* Running; and the turn of an empty read publishes nothing.
OnlyReadFailureEnds ==
    /\ [][\A p \in Procs :
            (Running(p) /\ ~Running(p)') =>
                /\ pc'[p] = "except" /\ err'[p] = "read"
                /\ sess'[p][Cur(p)].ser = "closed"]_vars
    /\ [][\A p \in Procs :
            (LoopTurn(p) \/ (Running(p) /\ sess'[p][Cur(p)].mqttc # sess[p][Cur(p)].mqttc))
                => Running(p)']_vars
    /\ [](\A p \in Procs : (Running(p) /\ line[p] = 0) => pub[p] = <<>>)

\* C20 witness: a session is Running with its connection lost and not yet
\* made again, its callback has written, and the only lines read so far were
\* malformed.
StillRunning ==
    \E p \in Procs :
        /\ Running(p)
        /\ sess[p][Cur(p)].mqttc = "connecting"
        /\ line[p] # 0 /\ Malformed(line[p]) /\ ~talk[p].bound
        /\ out.by = <<p, Cur(p)>> /\ out.src = "callback"

====
